---- MODULE Spec2Model ----
(***************************************************************************)
(* Model of src/index.py: the dual-backend token store (Supabase REST      *)
(* primary, in-process TOKEN_STORE fallback) behind /api/generate-token    *)
(* and /api/get-url/<token>.                                               *)
(*                                                                         *)
(* The remote service is the environment: every POST and GET draws its     *)
(* outcome (status code, exception, whether the row was committed) from a  *)
(* small set.  The clock is an input too: it may advance between any two   *)
(* readings of datetime.utcnow().                                          *)
(***************************************************************************)
EXTENDS Integers, Sequences, FiniteSets, TLC

VARIABLES
    SUPABASE_URL,   \* configured (TRUE) or None (FALSE), fixed at startup
    SUPABASE_KEY,   \* configured (TRUE) or None (FALSE), fixed at startup
    TOKEN_STORE,    \* the in-memory dict: token -> record
    remote,         \* the rows of the remote table stream_urls: token -> row
    now,            \* the wall clock, in ticks
    nextToken,      \* uuid4(): the next fresh token
    pc,             \* per worker thread: position inside api_get_url
    reg,            \* per worker thread: locals of retrieve_token_from_memory
    issued,         \* history: token -> what its issuance request and response were
    resp            \* history: the last completed request and its response

vars == <<SUPABASE_URL, SUPABASE_KEY, TOKEN_STORE, remote, now, nextToken,
          pc, reg, issued, resp>>

----------------------------------------------------------------------------
(* Bounds of the model *)

\* tokens generated in one behaviour
MaxIssued == 1
\* ticks that may elapse between two consecutive clock readings of a put
MaxSkew == 1
\* successful memory reads per token served one request at a time
MaxAccess == 1
\* successful memory reads per token started by racing threads
MaxRaceAccess == 2
\* worker threads serving /api/get-url concurrently
NumThreads == 2
\* clock resolution: ticks per second (datetime has sub-second resolution)
TicksPerSecond == 2

(* Program constants *)
API_TOKEN_EXPIRY == 3600

TTL == API_TOKEN_EXPIRY * TicksPerSecond

Threads == 1..NumThreads

\* The instants the clock is observed at: a window after startup, in which
\* tokens are issued, and a window one TTL later, so that both sides of the
\* expiry boundary of every record are visited.
IssueWindow == 0..MaxSkew
ClockPoints == IssueWindow \cup (TTL..(TTL + MaxSkew))

----------------------------------------------------------------------------
(* Python values *)

None == "<None>"

\* datetime.isoformat(): the sub-second part is printed only when non-zero
isoformat(t) ==
    IF t % TicksPerSecond = 0
    THEN <<t \div TicksPerSecond>>
    ELSE <<t \div TicksPerSecond, t % TicksPerSecond>>

\* datetime.fromisoformat(): a missing sub-second part reads as zero
fromisoformat(s) ==
    s[1] * TicksPerSecond + (IF Len(s) > 1 THEN s[2] ELSE 0)

\* timedelta(seconds=API_TOKEN_EXPIRY) added to a reading of the clock
plus_expiry(t) == t + API_TOKEN_EXPIRY * TicksPerSecond

----------------------------------------------------------------------------
(* Request bodies: what request.get_json() returns *)

RequiredFields == {"stream_url", "media_type", "media_id"}
OptionalFields == {"media_title", "season_number", "episode_number", "description"}
RecordFields == RequiredFields \cup OptionalFields

JsonNull   == [kind |-> "null",   obj |-> <<>>, arr |-> <<>>, num |-> 0]
JsonObject(o) == [kind |-> "object", obj |-> o, arr |-> <<>>, num |-> 0]
JsonArray(a)  == [kind |-> "array",  obj |-> <<>>, arr |-> a, num |-> 0]
JsonNumber(n) == [kind |-> "number", obj |-> <<>>, arr |-> <<>>, num |-> n]

MinimalObject ==
    [stream_url |-> "https://x/video.m3u8", media_type |-> "movie", media_id |-> "42"]

FullObject ==
    [stream_url |-> "https://x/ep.m3u8", media_type |-> "tv", media_id |-> "7",
     media_title |-> "Show", season_number |-> "1", episode_number |-> "2",
     description |-> "pilot"]

Without(o, k) == [f \in (DOMAIN o) \ {k} |-> o[f]]

ValidBodies == {JsonObject(MinimalObject), JsonObject(FullObject)}

InvalidBodies ==
    {JsonNull, JsonObject(<<>>), JsonNumber(1),
     JsonArray(<<"stream_url", "media_type", "media_id">>)}
    \cup {JsonObject(Without(MinimalObject, k)) : k \in RequiredFields}

\* Python truthiness of a JSON value (`not data`)
Truthy(data) ==
    CASE data.kind = "null"   -> FALSE
      [] data.kind = "object" -> DOMAIN data.obj # {}
      [] data.kind = "array"  -> Len(data.arr) > 0
      [] data.kind = "number" -> data.num # 0

\* `k in data` raises TypeError on a number
InRaises(data) == data.kind = "number"

\* `k in data`: key of a dict, element of a list
Contains(data, k) ==
    CASE data.kind = "object" -> k \in DOMAIN data.obj
      [] data.kind = "array"  -> \E i \in 1..Len(data.arr) : data.arr[i] = k
      [] OTHER -> FALSE

\* data.get(k, default) on a dict
Get(data, k, default) ==
    IF k \in DOMAIN data.obj THEN data.obj[k] ELSE default

\* line 183: the outcome of the validation condition, evaluated left to right
Validate(data) ==
    IF ~Truthy(data) THEN "missing"
    ELSE IF InRaises(data) THEN "raise"
    ELSE IF \E k \in RequiredFields : ~Contains(data, k) THEN "missing"
    ELSE "ok"

\* ReadFields with description read under the wrong key
ReadFieldsWrongKey(data) ==
    [stream_url     |-> Get(data, "stream_url", None),
     media_type     |-> Get(data, "media_type", None),
     media_id       |-> Get(data, "media_id", None),
     media_title    |-> Get(data, "media_title", "Unknown"),
     season_number  |-> Get(data, "season_number", None),
     episode_number |-> Get(data, "episode_number", None),
     description    |-> Get(data, "desc", None)]

\* lines 189-195: the locals read from the body
ReadFields(data) ==
    [stream_url     |-> Get(data, "stream_url", None),
     media_type     |-> Get(data, "media_type", None),
     media_id       |-> Get(data, "media_id", None),
     media_title    |-> Get(data, "media_title", "Unknown"),
     season_number  |-> Get(data, "season_number", None),
     episode_number |-> Get(data, "episode_number", None),
     description    |-> Get(data, "description", None)]

----------------------------------------------------------------------------
(* The remote service, as the adapter sees it *)

\* What one requests.post may do: the status it answers with, or the
\* exception it raises (connection error, 5 s timeout), and whether the
\* service committed the row.  A timeout can follow a committed insert.
PostOutcomes ==
    {[status |-> 201, raised |-> FALSE, stored |-> TRUE],
     [status |-> 200, raised |-> FALSE, stored |-> TRUE],
     [status |-> 500, raised |-> FALSE, stored |-> FALSE],
     [status |-> 0,   raised |-> TRUE,  stored |-> FALSE],
     [status |-> 0,   raised |-> TRUE,  stored |-> TRUE]}

\* What one requests.get may do
GetOutcomes ==
    {[status |-> 200, raised |-> FALSE, stored |-> FALSE],
     [status |-> 500, raised |-> FALSE, stored |-> FALSE],
     [status |-> 0,   raised |-> TRUE,  stored |-> FALSE]}

NoOutcome == [status |-> 0, raised |-> FALSE, stored |-> FALSE]

\* the guard written with `and`: one value alone enables the adapter
SupabaseConfiguredEither == SUPABASE_URL \/ SUPABASE_KEY

\* lines 47, 71, 124: `not SUPABASE_URL or not SUPABASE_KEY` is false
SupabaseConfigured == SUPABASE_URL /\ SUPABASE_KEY

\* lines 55-66: the record put in TOKEN_STORE; t1 and t2 are the two readings
\* of datetime.utcnow()
MemoryRecord(f, t1, t2) ==
    [stream_url     |-> f.stream_url,
     media_type     |-> f.media_type,
     media_id       |-> f.media_id,
     media_title    |-> f.media_title,
     season_number  |-> f.season_number,
     episode_number |-> f.episode_number,
     description    |-> f.description,
     created_at     |-> isoformat(t1),
     expires_at     |-> isoformat(plus_expiry(t2)),
     accessed_count |-> 0]

\* lines 80-92: the row posted to the remote table
SupabaseRow(token, f, t1, t2) ==
    [token          |-> token,
     stream_url     |-> f.stream_url,
     media_type     |-> f.media_type,
     media_id       |-> f.media_id,
     media_title    |-> f.media_title,
     season_number  |-> f.season_number,
     episode_number |-> f.episode_number,
     description    |-> f.description,
     created_at     |-> isoformat(t1),
     expires_at     |-> isoformat(plus_expiry(t2)),
     accessed_count |-> 0]

\* lines 53-66: TOKEN_STORE after store_token_in_memory
store_token_in_memory(token, f, t1, t2) ==
    [k \in (DOMAIN TOKEN_STORE) \cup {token} |->
        IF k = token THEN MemoryRecord(f, t1, t2) ELSE TOKEN_STORE[k]]

\* the adapter without the status test: any response counts as stored
PostReportsSuccessAnyStatus(out) == ~out.raised

\* lines 94-110: what the adapter reports for the outcome of the POST
PostReportsSuccess(out) ==
    ~out.raised /\ out.status \in {200, 201}

\* lines 68-110: the value returned, whether a request was sent, and the
\* remote table afterwards
store_token_in_supabase(token, f, t1, t2, out) ==
    IF ~SupabaseConfigured
    THEN [success |-> FALSE, sent |-> FALSE, rows |-> remote]
    ELSE [success |-> PostReportsSuccess(out),
          sent    |-> TRUE,
          rows    |-> IF out.stored
                      THEN [k \in (DOMAIN remote) \cup {token} |->
                               IF k = token THEN SupabaseRow(token, f, t1, t2)
                               ELSE remote[k]]
                      ELSE remote]

\* lines 121-147: the value returned (<<>> for None, <<row>> for data[0]) and
\* whether a request was sent
retrieve_token_from_supabase(token, out) ==
    IF ~SupabaseConfigured
    THEN [result |-> <<>>, sent |-> FALSE]
    ELSE [result |-> IF ~out.raised /\ out.status = 200 /\ token \in DOMAIN remote
                     THEN <<remote[token]>>
                     ELSE <<>>,
          sent   |-> TRUE]

\* the liveness test with the boundary instant counted as live
IsLiveInclusive(data, t) == fromisoformat(data.expires_at) >= t

\* line 116: the liveness test of retrieve_token_from_memory at clock reading t
IsLive(data, t) == fromisoformat(data.expires_at) > t

\* the fallback taken whatever the remote get returned
NotResultAlways(result) == TRUE

\* lines 231, 234: `not result`
NotResult(result) == Len(result) = 0

\* line 213
StorageLabel(supabase_success) ==
    IF supabase_success THEN "Supabase" ELSE "Memory"

\* lines 112-119: the value returned (<<>> for None, <<data>> for the record)
\* and TOKEN_STORE afterwards, at clock reading t
retrieve_token_from_memory(token, t) ==
    IF token \in DOMAIN TOKEN_STORE /\ IsLive(TOKEN_STORE[token], t)
    THEN LET store == [TOKEN_STORE EXCEPT
                          ![token].accessed_count = TOKEN_STORE[token].accessed_count + 1]
         IN  [result |-> <<store[token]>>, store |-> store]
    ELSE [result |-> <<>>, store |-> TOKEN_STORE]

----------------------------------------------------------------------------
(* History records *)

\* The request served by the step just taken and its response: the endpoint,
\* the HTTP status, the token (issued or presented), the storage label of an
\* issuance response, the record of a resolve response; and what the handler
\* did on the way: whether the body carried the three required fields, what
\* the remote POST did, whether the remote get returned a record, whether a
\* request was sent to the remote service, which stores the handler changed.
Response(op, status, token, storage, result, valid, out, hit, sent, wrote) ==
    [op |-> op, status |-> status, token |-> token, storage |-> storage,
     result |-> result, valid |-> valid, out |-> out, hit |-> hit,
     sent |-> sent, wrote |-> wrote]

NoResponse == Response("none", 0, 0, "", <<>>, FALSE, NoOutcome, FALSE, FALSE, {})

\* the request carries stream_url, media_type and media_id
ValidRequest(data) ==
    data.kind = "object" /\ RequiredFields \subseteq DOMAIN data.obj

NoReg == [token |-> 0, count |-> 0, sent |-> FALSE]

----------------------------------------------------------------------------
(* The state after module import *)

Init ==
    /\ SUPABASE_URL \in BOOLEAN
    /\ SUPABASE_KEY \in BOOLEAN
    /\ TOKEN_STORE = <<>>
    /\ remote = <<>>
    /\ now = 0
    /\ nextToken = 1
    /\ pc = [t \in Threads |-> "idle"]
    /\ reg = [t \in Threads |-> NoReg]
    /\ issued = <<>>
    /\ resp = NoResponse

\* time passes between requests: the clock moves on to the next instant it is
\* observed at
Tick ==
    /\ \E t \in ClockPoints :
          /\ t > now
          /\ \A u \in ClockPoints : u > now => t <= u
          /\ now' = t
    /\ resp' = NoResponse
    /\ UNCHANGED <<SUPABASE_URL, SUPABASE_KEY, TOKEN_STORE, remote, nextToken,
                   pc, reg, issued>>

\* lines 174-218: POST /api/generate-token with body `data`; `out` is what the
\* remote POST does if one is sent, d1 and d2 the ticks that elapse between the
\* two clock readings of the remote put and of the memory put
api_generate_token(data, out, d1, d2) ==
    LET v == Validate(data)
        valid == ValidRequest(data)
    IN
    IF v = "missing" THEN
        /\ resp' = Response("issue", 400, 0, "", <<>>, valid, NoOutcome, FALSE, FALSE, {})
        /\ UNCHANGED <<SUPABASE_URL, SUPABASE_KEY, TOKEN_STORE, remote, now,
                       nextToken, pc, reg, issued>>
    ELSE IF v = "raise" THEN
        /\ resp' = Response("issue", 500, 0, "", <<>>, valid, NoOutcome, FALSE, FALSE, {})
        /\ UNCHANGED <<SUPABASE_URL, SUPABASE_KEY, TOKEN_STORE, remote, now,
                       nextToken, pc, reg, issued>>
    ELSE
        /\ nextToken <= MaxIssued
        /\ nextToken' = nextToken + 1
        /\ IF data.kind # "object" THEN
               \* data.get raises AttributeError after uuid4() was called
               /\ resp' = Response("issue", 500, 0, "", <<>>, valid, NoOutcome,
                                   FALSE, FALSE, {})
               /\ UNCHANGED <<SUPABASE_URL, SUPABASE_KEY, TOKEN_STORE, remote, now,
                              pc, reg, issued>>
           ELSE
               LET token == nextToken
                   f  == ReadFields(data)
                   e1 == IF SupabaseConfigured THEN d1 ELSE 0
                   sb == store_token_in_supabase(token, f, now, now + e1, out)
                   e2 == IF sb.success THEN 0 ELSE d2
                   m1 == now + e1
                   m2 == m1 + e2
                   store == IF ~sb.success
                            THEN store_token_in_memory(token, f, m1, m2)
                            ELSE TOKEN_STORE
                   storage == StorageLabel(sb.success)
               IN  /\ m2 \in IssueWindow
                   /\ now' = m2
                   /\ remote' = sb.rows
                   /\ TOKEN_STORE' = store
                   /\ issued' = [k \in (DOMAIN issued) \cup {token} |->
                                    IF k = token
                                    THEN [data |-> data, storage |-> storage]
                                    ELSE issued[k]]
                   /\ resp' = Response("issue", 200, token, storage, <<>>, valid,
                                       IF sb.sent THEN out ELSE NoOutcome, FALSE, sb.sent,
                                       (IF sb.rows # remote THEN {"remote"} ELSE {})
                                          \cup (IF store # TOKEN_STORE THEN {"memory"} ELSE {}))
                   /\ UNCHANGED <<SUPABASE_URL, SUPABASE_KEY, pc, reg>>

\* lines 220-241: GET /api/get-url/<token>, one request served from start to
\* end; `out` is what the remote GET does if one is sent
api_get_url(token, out) ==
    LET sb == retrieve_token_from_supabase(token, out)
        hit == sb.result # <<>>
    IN  IF ~NotResult(sb.result) THEN
            /\ resp' = Response("resolve", 200, token, "", sb.result, FALSE, NoOutcome,
                                hit, sb.sent, {})
            /\ UNCHANGED <<SUPABASE_URL, SUPABASE_KEY, TOKEN_STORE, remote, now,
                           nextToken, pc, reg, issued>>
        ELSE
            LET mem == retrieve_token_from_memory(token, now)
                wrote == IF mem.store # TOKEN_STORE THEN {"memory"} ELSE {}
            IN  /\ \A k \in DOMAIN mem.store : mem.store[k].accessed_count <= MaxAccess
                /\ TOKEN_STORE' = mem.store
                /\ resp' = Response("resolve",
                                    IF NotResult(mem.result) THEN 404 ELSE 200,
                                    token, "", mem.result, FALSE, NoOutcome, hit,
                                    sb.sent, wrote)
                /\ UNCHANGED <<SUPABASE_URL, SUPABASE_KEY, remote, now, nextToken,
                               pc, reg, issued>>

\* tokens a caller may present: every token generated so far, and 0, a token
\* that is never issued
Presented == 0..(nextToken - 1)

Next ==
    \/ \E data \in InvalidBodies : api_generate_token(data, NoOutcome, 0, 0)
    \/ \E data \in ValidBodies, out \in PostOutcomes, d1 \in 0..MaxSkew, d2 \in 0..MaxSkew :
          api_generate_token(data, out, d1, d2)
    \/ \E token \in Presented, out \in GetOutcomes : api_get_url(token, out)
    \/ Tick

Spec == Init /\ [][Next]_vars

----------------------------------------------------------------------------
(* The same handlers served by concurrent worker threads: line 117,          *)
(* data['accessed_count'] += 1, is a read of the counter followed by a write *)
(* of the value read plus one, and another thread may run in between.        *)

\* lines 226-232 and 114-117 (the read): thread t serves GET /api/get-url/<token>
\* up to the read of accessed_count
api_get_url_read(t, token, out) ==
    /\ pc[t] = "idle"
    /\ LET sb == retrieve_token_from_supabase(token, out)
           hit == sb.result # <<>>
       IN  IF ~NotResult(sb.result) THEN
               /\ resp' = Response("resolve", 200, token, "", sb.result, FALSE,
                                   NoOutcome, hit, sb.sent, {})
               /\ UNCHANGED <<SUPABASE_URL, SUPABASE_KEY, TOKEN_STORE, remote, now,
                              nextToken, pc, reg, issued>>
           ELSE IF token \in DOMAIN TOKEN_STORE /\ IsLive(TOKEN_STORE[token], now) THEN
               /\ TOKEN_STORE[token].accessed_count < MaxRaceAccess
               /\ pc' = [pc EXCEPT ![t] = "write"]
               /\ reg' = [reg EXCEPT ![t] =
                            [token |-> token,
                             count |-> TOKEN_STORE[token].accessed_count,
                             sent  |-> sb.sent]]
               /\ resp' = NoResponse
               /\ UNCHANGED <<SUPABASE_URL, SUPABASE_KEY, TOKEN_STORE, remote, now,
                              nextToken, issued>>
           ELSE
               /\ resp' = Response("resolve", 404, token, "", <<>>, FALSE, NoOutcome,
                                   hit, sb.sent, {})
               /\ UNCHANGED <<SUPABASE_URL, SUPABASE_KEY, TOKEN_STORE, remote, now,
                              nextToken, pc, reg, issued>>

\* lines 117 (the write), 118 and 234-237: thread t stores the value it read
\* plus one and answers with the record
api_get_url_write(t) ==
    /\ pc[t] = "write"
    /\ LET token == reg[t].token
           store == [TOKEN_STORE EXCEPT ![token].accessed_count = reg[t].count + 1]
       IN  /\ TOKEN_STORE' = store
           /\ resp' = Response("resolve", 200, token, "", <<store[token]>>, FALSE,
                               NoOutcome, FALSE, reg[t].sent,
                               IF store # TOKEN_STORE THEN {"memory"} ELSE {})
    /\ pc' = [pc EXCEPT ![t] = "idle"]
    /\ reg' = [reg EXCEPT ![t] = NoReg]
    /\ UNCHANGED <<SUPABASE_URL, SUPABASE_KEY, remote, now, nextToken, issued>>

NextThreads ==
    \/ \E data \in InvalidBodies : api_generate_token(data, NoOutcome, 0, 0)
    \/ \E data \in ValidBodies, out \in PostOutcomes, d1 \in 0..MaxSkew, d2 \in 0..MaxSkew :
          api_generate_token(data, out, d1, d2)
    \/ \E t \in Threads, token \in Presented, out \in GetOutcomes :
          api_get_url_read(t, token, out)
    \/ \E t \in Threads : api_get_url_write(t)
    \/ Tick

SpecThreads == Init /\ [][NextThreads]_vars

----------------------------------------------------------------------------
(* Claims.  resp describes the request served by the step just taken, and   *)
(* now is then the clock at the end of that request.                         *)

Expiry(rec) == fromisoformat(rec.expires_at)
Created(rec) == fromisoformat(rec.created_at)

\* base address or credential absent
Disabled == ~SUPABASE_URL \/ ~SUPABASE_KEY

\* the record Issue created in the backend it reported
ReportedRecord(token) ==
    IF issued[token].storage = "Supabase" THEN remote[token] ELSE TOKEN_STORE[token]

\* every record held for the token, in either store
RecordsOf(token) ==
    (IF token \in DOMAIN remote THEN {remote[token]} ELSE {})
       \cup (IF token \in DOMAIN TOKEN_STORE THEN {TOKEN_STORE[token]} ELSE {})

\* the record carries every submitted field; an optional field that was not
\* submitted reads as its default
FieldsMatch(rec, data) ==
    /\ \A k \in RecordFields \cap DOMAIN data.obj : rec[k] = data.obj[k]
    /\ \A k \in RecordFields \ DOMAIN data.obj :
          rec[k] = IF k = "media_title" THEN "Unknown" ELSE None

\* the remote put failed: adapter disabled, exception (network failure,
\* timeout), or a response that is not 200/201
PutFailed(out) ==
    Disabled \/ out.raised \/ out.status \notin {200, 201}

\* the memory get has nothing live to return for the token
MemoryAbsent(token) ==
    token \notin DOMAIN TOKEN_STORE \/ now >= Expiry(TOKEN_STORE[token])

\* C1 (as stated): a Resolve of an issued token before the record's expires_at
\* returns the submitted fields whatever the remote store does.
C1_RoundTripAnyRemote ==
    (resp.op = "resolve" /\ resp.token \in DOMAIN issued
        /\ now < Expiry(ReportedRecord(resp.token)))
    => /\ resp.status = 200
       /\ resp.result # <<>>
       /\ FieldsMatch(resp.result[1], issued[resp.token].data)

\* C1 (amended): a Resolve of an issued token before the record's expires_at
\* returns the submitted fields whenever Issue reported storage Memory or the
\* remote get returns the row.
C1_RoundTrip ==
    (resp.op = "resolve" /\ resp.token \in DOMAIN issued
        /\ now < Expiry(ReportedRecord(resp.token))
        /\ (issued[resp.token].storage = "Memory" \/ resp.hit))
    => /\ resp.status = 200
       /\ resp.result # <<>>
       /\ FieldsMatch(resp.result[1], issued[resp.token].data)

C1_Witness ==
    /\ resp.op = "resolve" /\ resp.status = 200 /\ resp.token \in DOMAIN issued
    /\ resp.sent /\ ~resp.hit
    /\ issued[resp.token].data = JsonObject(FullObject)
    /\ now < Expiry(ReportedRecord(resp.token))

\* C2: once every record of an issued token has expired, Resolve answers 404,
\* whichever backend holds the record.
C2_ExpiredNotFound ==
    (resp.op = "resolve" /\ resp.token \in DOMAIN issued
        /\ \A rec \in RecordsOf(resp.token) : now >= Expiry(rec))
    => resp.status = 404

\* C3: an issuance request without the three required fields is answered 400,
\* sends nothing to the remote service and changes neither store.
C3_MissingFieldsRejected ==
    (resp.op = "issue" /\ ~resp.valid)
    => resp.status = 400 /\ ~resp.sent /\ resp.wrote = {}

\* C4: every valid issuance request succeeds with a token whatever the remote
\* put does; it reports storage Memory exactly when the remote put failed, and
\* then the record is in TOKEN_STORE when the handler returns.
C4_IssueAbsorbsRemoteFailure ==
    (resp.op = "issue" /\ resp.valid)
    => /\ resp.status = 200
       /\ resp.token \in DOMAIN issued
       /\ (resp.storage = "Memory") <=> PutFailed(resp.out)
       /\ (resp.storage = "Supabase") <=> ~PutFailed(resp.out)
       /\ PutFailed(resp.out) =>
             /\ resp.token \in DOMAIN TOKEN_STORE
             /\ FieldsMatch(TOKEN_STORE[resp.token], issued[resp.token].data)

C4_Witness ==
    /\ resp.op = "issue" /\ resp.valid /\ resp.status = 200
    /\ resp.sent /\ resp.out.status = 500
    /\ resp.storage = "Memory" /\ resp.token \in DOMAIN TOKEN_STORE

\* C5: no token has a record in both the remote table and TOKEN_STORE.
C5_NoDuplicateRecords ==
    \A token \in DOMAIN remote : token \notin DOMAIN TOKEN_STORE

\* C6: with the adapter disabled no request is sent to the remote service,
\* every valid Issue reports storage Memory, and a Resolve of an issued token
\* before its expiry returns the record held in TOKEN_STORE.
C6_DisabledRemote ==
    Disabled =>
       /\ ~resp.sent
       /\ remote = <<>>
       /\ (resp.op = "issue" /\ resp.valid) =>
             /\ resp.status = 200 /\ resp.storage = "Memory"
             /\ resp.token \in DOMAIN TOKEN_STORE
       /\ (resp.op = "resolve" /\ resp.token \in DOMAIN issued
              /\ now < Expiry(TOKEN_STORE[resp.token])) =>
             /\ resp.status = 200
             /\ resp.result = <<TOKEN_STORE[resp.token]>>
             /\ FieldsMatch(resp.result[1], issued[resp.token].data)

C6_Witness ==
    /\ Disabled
    /\ resp.op = "resolve" /\ resp.token \in DOMAIN issued /\ resp.status = 200
    /\ now = Created(TOKEN_STORE[resp.token])

\* C7: accessed_count rises by exactly 1 when a memory get completes with no
\* other write of the counter since its read, and the stored accessed_count
\* never decreases, also when gets of the same token race.
C7_CounterNeverDecreases ==
    [][/\ \A k \in DOMAIN TOKEN_STORE :
             TOKEN_STORE'[k].accessed_count >= TOKEN_STORE[k].accessed_count
       /\ \A t \in Threads :
             (pc[t] = "write" /\ pc'[t] = "idle"
                 /\ TOKEN_STORE[reg[t].token].accessed_count = reg[t].count)
             => TOKEN_STORE'[reg[t].token].accessed_count
                   = TOKEN_STORE[reg[t].token].accessed_count + 1]_vars

\* C8: every record of either store has expires_at = created_at + TTL.
C8_ExpiryIsCreatedPlusTTL ==
    /\ \A k \in DOMAIN TOKEN_STORE :
          Expiry(TOKEN_STORE[k]) = Created(TOKEN_STORE[k]) + TTL
    /\ \A k \in DOMAIN remote :
          Expiry(remote[k]) = Created(remote[k]) + TTL

\* C9: the memory get returns no record whose expires_at has been reached
\* (now >= expires_at): for such a token held in TOKEN_STORE it returns absent
\* and TOKEN_STORE is left as it was.
C9_MemoryGetOnlyLive ==
    (resp.op = "resolve" /\ ~resp.hit) =>
       /\ (resp.token \in DOMAIN TOKEN_STORE
              /\ now >= Expiry(TOKEN_STORE[resp.token]))
          => resp.status = 404 /\ resp.result = <<>> /\ resp.wrote = {}
       /\ resp.status = 200
          => resp.result # <<>> /\ now < Expiry(resp.result[1])

C9_Witness ==
    /\ resp.op = "resolve" /\ ~resp.hit /\ resp.status = 404
    /\ resp.token \in DOMAIN TOKEN_STORE
    /\ now = Expiry(TOKEN_STORE[resp.token])
    /\ TOKEN_STORE[resp.token].accessed_count > 0

\* C10: when the remote get returns a record, Resolve answers with that record
\* and leaves TOKEN_STORE as it was; Resolve answers 404 exactly when the
\* remote get and the memory get are both absent.
C10_RemoteFirst ==
    resp.op = "resolve" =>
       /\ resp.hit =>
             /\ resp.status = 200
             /\ resp.token \in DOMAIN remote
             /\ resp.result = <<remote[resp.token]>>
             /\ resp.wrote = {}
       /\ (resp.status = 404) <=> (~resp.hit /\ MemoryAbsent(resp.token))
       /\ resp.status \in {200, 404}

C10_Witness ==
    /\ resp.op = "resolve" /\ resp.hit /\ resp.status = 200
    /\ resp.token \in DOMAIN TOKEN_STORE
    /\ now < Expiry(TOKEN_STORE[resp.token])

====
